---- MODULE Spec2Model ----
(***************************************************************************)
(* Model of motion/optimizers/map_optimizer/config_generators.py:          *)
(* ConfigGenerator, the planner of chunk-level decompositions.             *)
(*                                                                         *)
(* ConfigGenerator holds no state between calls (llm_client and console    *)
(* are collaborators).  Every method is modelled as one action that takes  *)
(* the generator from "idle" to "done": the action draws the method's      *)
(* arguments, the random draws and the oracle's answers from bounded sets  *)
(* and computes what the method returns or raises.  Return leads back to   *)
(* "idle".                                                                 *)
(*                                                                         *)
(* Python strings are sequences of one-character strings, so that          *)
(* str.replace is computed on the text as Python computes it.              *)
(***************************************************************************)
EXTENDS Integers, Sequences, FiniteSets, TLC

VARIABLES
    pc,          \* "idle" | "done"
    op,          \* the method that ran last: "none" | "split" | ...
    args,        \* its arguments
    oracle_log,  \* the llm_client.generate calls of the running method, in order
    ret          \* what it returned (outcome "ok") or raised

vars == <<pc, op, args, oracle_log, ret>>

(***************************************************************************)
(* Bounds of the model.                                                    *)
(***************************************************************************)
MaxSample == 2      \* records in an input_data_sample
MaxRefs == 2        \* variable references in an oracle-written subprompt
MaxDocWords == 5    \* words of a document the metadata planner samples
MaxChunkSize == 2   \* chunk_size handed to the metadata planner
MinWords == 195     \* words of a document handed to the chunk-size generator,
MaxWords == 215     \*   at least and at most
MaxPeriChunk == 4   \* chunk_size handed to the peripheral-config generator
MaxAvgDoc == 45     \* avg_doc_size handed to the peripheral-config generator

Max(a, b) == IF a >= b THEN a ELSE b
Min(a, b) == IF a <= b THEN a ELSE b

(***************************************************************************)
(* Strings.                                                                *)
(***************************************************************************)
INPUT_PREFIX == <<"i", "n", "p", "u", "t", ".">>

CHUNK_VAR ==
    INPUT_PREFIX \o <<"c", "h", "u", "n", "k", "_", "c", "o", "n", "t", "e", "n", "t">>

StartsWith(s, p) == Len(s) >= Len(p) /\ SubSeq(s, 1, Len(p)) = p

\* str.replace(old, new), old non-empty: every non-overlapping occurrence of
\* old, found left to right, becomes new; the text put in is not scanned again.
RECURSIVE Replace(_, _, _)
Replace(s, old, new) ==
    IF s = <<>> THEN <<>>
    ELSE IF StartsWith(s, old)
         THEN new \o Replace(SubSeq(s, Len(old) + 1, Len(s)), old, new)
         ELSE <<Head(s)>> \o Replace(Tail(s), old, new)

\* f"{{{{ {variable} }}}}": two braces, a space, the name, a space, two braces.
Interpolation(variable) == <<"{", "{", " ">> \o variable \o <<" ", "}", "}">>

(***************************************************************************)
(* Template Variable Extraction (motion.optimizers.utils): the variable    *)
(* paths a template references.  A reference opens with two braces; the    *)
(* path is the run of name characters after any spaces.                    *)
(***************************************************************************)
NameEnd == {" ", "{", "}", "|"}

RECURSIVE SkipSpaces(_)
SkipSpaces(s) == IF s # <<>> /\ Head(s) = " " THEN SkipSpaces(Tail(s)) ELSE s

RECURSIVE NameRun(_)
NameRun(s) ==
    IF s = <<>> \/ Head(s) \in NameEnd THEN <<>>
    ELSE <<Head(s)>> \o NameRun(Tail(s))

RECURSIVE extract_jinja_variables(_)
extract_jinja_variables(s) ==
    IF Len(s) < 2 THEN {}
    ELSE IF StartsWith(s, <<"{", "{">>)
         THEN LET name == NameRun(SkipSpaces(SubSeq(s, 3, Len(s))))
              IN  (IF name = <<>> THEN {} ELSE {name})
                  \cup extract_jinja_variables(SubSeq(s, 3, Len(s)))
         ELSE extract_jinja_variables(Tail(s))

(***************************************************************************)
(* Data samples.  A record is a dict: a function from its field names to   *)
(* values.  Only the word count of a value is ever used (len(v.split())),  *)
(* so a value is its word count.                                           *)
(***************************************************************************)
Records(fields, values) == UNION {[F -> values] : F \in SUBSET fields}

Samples(fields, values) ==
    UNION {[1..n -> Records(fields, values)] : n \in 0..MaxSample}

(***************************************************************************)
(* Split Planner: _get_split_config.                                       *)
(***************************************************************************)
T == <<"t">>
TT == <<"t", "t">>
H == <<"h">>

SplitFields == {T, TT}

\* What the oracle may name as the split key.
OracleSplitKeys ==
    { T, TT, H,
      INPUT_PREFIX \o T,
      INPUT_PREFIX \o H,
      INPUT_PREFIX \o INPUT_PREFIX \o T,
      T \o INPUT_PREFIX \o T,
      <<"i", "n", "p">> \o INPUT_PREFIX \o <<"u", "t", ".">> \o T }

\* The ways the oracle may write a reference to a variable in a template.
RefForms == {"spaced", "tight", "filtered"}

RenderRef(ref) ==
    CASE ref.form = "spaced" -> <<"{", "{", " ">> \o ref.var \o <<" ", "}", "}">>
      [] ref.form = "tight" -> <<"{", "{">> \o ref.var \o <<"}", "}">>
      [] ref.form = "filtered" ->
            <<"{", "{", " ">> \o ref.var \o <<" ", "|", " ", "f", " ", "}", "}">>

RECURSIVE RenderRefs(_)
RenderRefs(refs) ==
    IF refs = <<>> THEN <<".">>
    ELSE <<".">> \o RenderRef(Head(refs)) \o RenderRefs(Tail(refs))

OracleRefs ==
    [var : {INPUT_PREFIX \o T, H}, form : {"spaced", "tight"}]
        \cup [var : {INPUT_PREFIX \o T}, form : RefForms]

\* The subprompts the oracle may write: text with up to MaxRefs references.
OracleSubprompts ==
    {RenderRefs(refs) : refs \in UNION {[1..n -> OracleRefs] : n \in 0..MaxRefs}}

\* Lines 111-117: for variable in variables_in_subprompt: subprompt =
\* subprompt.replace("{{ variable }}", "{{ input.chunk_content }}"), the
\* variables taken in the order `order` lists them.
RECURSIVE RewriteSubprompt(_, _)
RewriteSubprompt(subprompt, order) ==
    IF order = <<>> THEN subprompt
    ELSE RewriteSubprompt(
             Replace(subprompt, Interpolation(Head(order)), Interpolation(CHUNK_VAR)),
             Tail(order))

\* The orders in which a list holding the set S once each can be iterated.
Orders(S) ==
    {o \in [1..Cardinality(S) -> S] : \A i, j \in 1..Cardinality(S) : o[i] = o[j] => i = j}

\* Line 103: result["split_key"].replace("input.", "").
StripInput(key) == Replace(key, INPUT_PREFIX, <<>>)

\* Lines 105-109 left out: the split key is not validated.
SplitResultUnvalidated(sample, answer, order) ==
    IF sample = <<>> THEN [outcome |-> "IndexError"]
    ELSE [outcome |-> "ok",
          value |-> [split_key |-> StripInput(answer.split_key),
                     subprompt |-> RewriteSubprompt(answer.subprompt, order)]]

\* Lines 100-123 on the oracle's answer: the split key stripped and validated
\* against input_data_sample[0], the subprompt rewritten.
SplitResult(sample, answer, order) ==
    LET split_key == StripInput(answer.split_key)
    IN  IF sample = <<>> THEN [outcome |-> "IndexError"]
        ELSE IF split_key \notin DOMAIN sample[1] THEN [outcome |-> "ValueError"]
        ELSE [outcome |-> "ok",
              value |-> [split_key |-> split_key,
                         subprompt |-> RewriteSubprompt(answer.subprompt, order)]]

get_split_config ==
    /\ pc = "idle"
    /\ \E sample \in Samples(SplitFields, {1}) :
       \E answer \in [split_key : OracleSplitKeys, subprompt : OracleSubprompts] :
       \E order \in Orders(extract_jinja_variables(answer.subprompt)) :
          /\ args' = [input_data_sample |-> sample]
          /\ oracle_log' = <<[request |-> [kind |-> "split"], answer |-> answer]>>
          /\ ret' = SplitResult(sample, answer, order)
    /\ op' = "split"
    /\ pc' = "done"

(***************************************************************************)
(* Metadata Planner: _determine_metadata_needs, which runs                 *)
(* _check_metadata_necessity and, when metadata is needed,                 *)
(* _get_metadata_config.  A method's run is [outcome, log, value]: how it  *)
(* ended, the oracle calls it made, and what it returned.                  *)
(***************************************************************************)
\* random.choice(seq): an index of seq; 0 stands for the IndexError that
\* random.choice raises on an empty sequence.
Choices(seq) == IF seq = <<>> THEN {0} ELSE DOMAIN seq

\* Lines 183-192: the start offsets the necessity check may draw.
NecessityStarts(total_words, chunk_size) ==
    LET max_start == Max(0, total_words - chunk_size)
    IN  IF max_start > chunk_size THEN chunk_size..max_start ELSE {0}

\* The start offsets possible for draw i of the sample (0 when line 180 raises).
StartsFor(sample, i, split_key, chunk_size) ==
    IF i = 0 \/ split_key \notin DOMAIN sample[i] THEN {0}
    ELSE NecessityStarts(sample[i][split_key], chunk_size)

\* Lines 178-242.  i is the record random.choice draws, start the offset drawn.
\* The second random.choice (line 214) only picks the record printed in the
\* prompt; the sample is not empty there, so it cannot raise.
check_metadata_necessity(sample, split_key, chunk_size, i, start, answer) ==
    IF i = 0 THEN [outcome |-> "IndexError", log |-> <<>>]
    ELSE IF split_key \notin DOMAIN sample[i] THEN [outcome |-> "KeyError", log |-> <<>>]
    ELSE LET total_words == sample[i][split_key]
             \* words[start : start + chunk_size]
             chunk_words == Max(0, Min(total_words, start + chunk_size) - start)
             request == [kind |-> "necessity",
                         chunk_words |-> chunk_words,
                         num_words_before |-> start,
                         num_words_after |-> total_words - (start + chunk_size)]
         IN  [outcome |-> "ok",
              log |-> <<[request |-> request, answer |-> answer]>>,
              value |-> answer]

\* _generate_and_validate_prompt (not in this file): one judgment request to the
\* oracle for the declared schema, whose conformant answer it returns.
generate_and_validate_prompt(request, answer) ==
    [outcome |-> "ok", log |-> <<[request |-> request, answer |-> answer]>>, value |-> answer]

\* Lines 252-295.  k is the record random.choice draws.
get_metadata_config(sample, split_key, k, answer) ==
    IF k = 0 THEN [outcome |-> "IndexError", log |-> <<>>]
    ELSE IF split_key \notin DOMAIN sample[k] THEN [outcome |-> "KeyError", log |-> <<>>]
    ELSE LET result == generate_and_validate_prompt([kind |-> "metadata_config"], answer)
         IN  [result EXCEPT !.value = ("needs_metadata" :> TRUE) @@ @]

\* Lines 137-142 without the test: the config is derived whatever the answer.
MetadataResultAlwaysDerives(sample, split_key, chunk_size, i, start, necessity, k, config) ==
    LET needs_metadata ==
            check_metadata_necessity(sample, split_key, chunk_size, i, start, necessity)
    IN  IF needs_metadata.outcome # "ok" THEN needs_metadata
        ELSE LET derived == get_metadata_config(sample, split_key, k, config)
             IN  [derived EXCEPT !.log = needs_metadata.log \o @]

\* Lines 133-142.
MetadataResult(sample, split_key, chunk_size, i, start, necessity, k, config) ==
    LET needs_metadata ==
            check_metadata_necessity(sample, split_key, chunk_size, i, start, necessity)
    IN  IF needs_metadata.outcome # "ok" THEN needs_metadata
        ELSE IF needs_metadata.value.needs_metadata
        THEN LET derived == get_metadata_config(sample, split_key, k, config)
             IN  [derived EXCEPT !.log = needs_metadata.log \o @]
        ELSE needs_metadata

Reasons == {"r1", "r2"}
MetadataPrompts == {"p1", "p2"}
OutputSchemas == {"s1", "s2"}
NecessityAnswers == [needs_metadata : BOOLEAN, reason : Reasons]
ConfigAnswers == [metadata_prompt : MetadataPrompts, output_schema : OutputSchemas]

determine_metadata_needs ==
    /\ pc = "idle"
    /\ \E sample \in Samples({T}, 0..MaxDocWords), chunk_size \in 1..MaxChunkSize :
       \E i \in Choices(sample) :
       \E start \in StartsFor(sample, i, T, chunk_size) :
       \E necessity \in NecessityAnswers :
       \E k \in Choices(sample), config \in ConfigAnswers :
          LET run == MetadataResult(sample, T, chunk_size, i, start, necessity, k, config)
          IN  /\ args' = [input_data_sample |-> sample, split_key |-> T,
                          chunk_size |-> chunk_size]
              /\ oracle_log' = run.log
              /\ ret' = IF run.outcome = "ok"
                        THEN [outcome |-> "ok", value |-> run.value]
                        ELSE [outcome |-> run.outcome]
    /\ op' = "metadata"
    /\ pc' = "done"

(***************************************************************************)
(* Context Planner: _determine_context_needs.                              *)
(***************************************************************************)
\* Line 317: what random.randint(0, len(words) - chunk_size) may return; the
\* range is empty, and randint raises ValueError, when the document has fewer
\* words than chunk_size.
ContextStarts(total_words, chunk_size) == 0..(total_words - chunk_size)

\* The draws possible for record i of the sample; 0 where nothing is drawn
\* (line 308 or 311 raises before, or randint raises).
ContextStartsFor(sample, i, split_key, chunk_size) ==
    IF i = 0 \/ split_key \notin DOMAIN sample[i] THEN {0}
    ELSE ContextStarts(sample[i][split_key], chunk_size) \cup {0}

\* Lines 305-374.  i is the record random.choice draws, drawn what randint
\* returns, answer the oracle's judgment.
ContextResult(sample, split_key, chunk_size, i, drawn, answer) ==
    IF i = 0 THEN [outcome |-> "IndexError", log |-> <<>>]
    ELSE IF split_key \notin DOMAIN sample[i] THEN [outcome |-> "KeyError", log |-> <<>>]
    ELSE LET total_words == sample[i][split_key]
         IN  IF ContextStarts(total_words, chunk_size) = {}
             THEN [outcome |-> "ValueError", log |-> <<>>]
             ELSE LET start_index == Max(0, drawn)
                      \* words[start_index : start_index + chunk_size]
                      chunk_words ==
                          Max(0, Min(total_words, start_index + chunk_size) - start_index)
                      request ==
                          [kind |-> "context",
                           chunk_words |-> chunk_words,
                           num_words_before |-> start_index,
                           num_words_after |->
                               Max(0, total_words - (start_index + chunk_size))]
                  IN  [outcome |-> "ok",
                       log |-> <<[request |-> request, answer |-> answer]>>,
                       value |-> answer]

\* Judgments the oracle may return for lines 347-365.
ContextAnswers ==
    { [needs_peripherals |-> FALSE, previous_context |-> FALSE, next_context |-> FALSE,
       needs_document_head |-> FALSE, needs_document_tail |-> FALSE, reason |-> "r1"],
      [needs_peripherals |-> TRUE, previous_context |-> TRUE, next_context |-> FALSE,
       needs_document_head |-> TRUE, needs_document_tail |-> FALSE, reason |-> "r2"],
      [needs_peripherals |-> TRUE, previous_context |-> TRUE, next_context |-> TRUE,
       needs_document_head |-> TRUE, needs_document_tail |-> TRUE, reason |-> "r1"] }

determine_context_needs ==
    /\ pc = "idle"
    /\ \E sample \in Samples({T}, 0..MaxDocWords), chunk_size \in 1..MaxChunkSize :
       \E i \in Choices(sample) :
       \E drawn \in ContextStartsFor(sample, i, T, chunk_size) :
       \E answer \in ContextAnswers :
          LET run == ContextResult(sample, T, chunk_size, i, drawn, answer)
          IN  /\ args' = [input_data_sample |-> sample, split_key |-> T,
                          chunk_size |-> chunk_size]
              /\ oracle_log' = run.log
              /\ ret' = IF run.outcome = "ok"
                        THEN [outcome |-> "ok", value |-> run.value]
                        ELSE [outcome |-> run.outcome]
    /\ op' = "context"
    /\ pc' = "done"

(***************************************************************************)
(* Chunk-Size Space Generator: _generate_chunk_sizes.                      *)
(***************************************************************************)
DefaultNumChunks == 5
ChunkFloor == 100

RECURSIVE SumWords(_, _)
SumWords(sample, split_key) ==
    IF sample = <<>> THEN 0
    ELSE sample[1][split_key] + SumWords(Tail(sample), split_key)

\* int(num / den), den > 0: Python's int() truncates towards zero.
IntOfQuotient(num, den) == IF num >= 0 THEN num \div den ELSE -((-num) \div den)

\* Line 388: int(avg_doc_length / 2), avg_doc_length = total / count.
MaxChunkSizeOf(total, count) == IntOfQuotient(total, 2 * count)

\* Line 390 dividing by num_chunks.
ChunkSizeAtOffByOne(i, max_chunk_size, num_chunks) ==
    IntOfQuotient(ChunkFloor * num_chunks + i * (max_chunk_size - ChunkFloor), num_chunks)

\* Line 390: int(100 + i * (max_chunk_size - 100) / (num_chunks - 1)).
ChunkSizeAt(i, max_chunk_size, num_chunks) ==
    IntOfQuotient(ChunkFloor * (num_chunks - 1) + i * (max_chunk_size - ChunkFloor),
                  num_chunks - 1)

\* Lines 383-392.
ChunkSizesResult(split_key, sample, num_chunks) ==
    IF \E d \in DOMAIN sample : split_key \notin DOMAIN sample[d]
    THEN [outcome |-> "KeyError"]
    ELSE IF sample = <<>> \/ num_chunks = 1 THEN [outcome |-> "ZeroDivisionError"]
    ELSE LET max_chunk_size == MaxChunkSizeOf(SumWords(sample, split_key), Len(sample))
         IN  [outcome |-> "ok",
              value |-> [n \in 1..num_chunks |->
                            ChunkSizeAt(n - 1, max_chunk_size, num_chunks)]]

generate_chunk_sizes ==
    /\ pc = "idle"
    /\ \E sample \in Samples({T}, MinWords..MaxWords), num_chunks \in 1..DefaultNumChunks :
          /\ args' = [input_data_sample |-> sample, split_key |-> T,
                      num_chunks |-> num_chunks]
          /\ ret' = ChunkSizesResult(T, sample, num_chunks)
    /\ oracle_log' = <<>>
    /\ op' = "chunk_sizes"
    /\ pc' = "done"

(***************************************************************************)
(* Peripheral-Config Space Generator: _generate_peripheral_configs.        *)
(* A configuration is a nested dict: direction -> part -> {count, type}.   *)
(***************************************************************************)
EmptyConfig == <<>>

ExtensivePrevious == 5
ExtensiveNext == 2
ExtensiveRatio == 10
SummaryRatio == 5

\* Line 422.
MaxChunks(chunk_size, avg_doc_size) == Max(1, avg_doc_size \div chunk_size)

\* Lines 425-428.
base_configs ==
    << [previous |-> [tail |-> [count |-> 1]]],
       [previous |-> [tail |-> [count |-> 1]], next |-> [head |-> [count |-> 1]]] >>

\* int(count * (avg_doc_size / chunk_size) ** 0.5): the largest k with
\* k * k * chunk_size <= count * count * avg_doc_size.
ScaledRoot(count, chunk_size, avg_doc_size) ==
    CHOOSE k \in 0..(count * avg_doc_size) :
        /\ k * k * chunk_size <= count * count * avg_doc_size
        /\ (k + 1) * (k + 1) * chunk_size > count * count * avg_doc_size

\* Lines 438-441 without max(1, ...).
ScaledCountNoFloor(count, chunk_size, avg_doc_size) ==
    Min(MaxChunks(chunk_size, avg_doc_size), ScaledRoot(count, chunk_size, avg_doc_size))

\* Lines 438-441.
ScaledCount(count, chunk_size, avg_doc_size) ==
    Min(MaxChunks(chunk_size, avg_doc_size),
        Max(1, ScaledRoot(count, chunk_size, avg_doc_size)))

\* Lines 433-442: the counts of both directions scaled.
ScaleConfig(config, chunk_size, avg_doc_size) ==
    [direction \in DOMAIN config |->
        IF direction \in {"previous", "next"}
        THEN [part \in DOMAIN config[direction] |->
                [config[direction][part] EXCEPT
                    !.count = ScaledCount(@, chunk_size, avg_doc_size)]]
        ELSE config[direction]]

\* Line 448 with a floor division, avg_doc_size // 10.
NeedsExtensiveFloorDiv(chunk_size, avg_doc_size) ==
    chunk_size < avg_doc_size \div ExtensiveRatio

\* Line 448: chunk_size < avg_doc_size / 10, a true division.
NeedsExtensive(chunk_size, avg_doc_size) == ExtensiveRatio * chunk_size < avg_doc_size

\* Line 456: chunk_size < avg_doc_size / 5.
NeedsSummary(chunk_size, avg_doc_size) == SummaryRatio * chunk_size < avg_doc_size

\* Lines 449-452.
ExtensiveConfig(chunk_size, avg_doc_size) ==
    [previous |-> [tail |-> [count |-> Min(ExtensivePrevious,
                                           MaxChunks(chunk_size, avg_doc_size))]],
     next |-> [head |-> [count |-> Min(ExtensiveNext,
                                       MaxChunks(chunk_size, avg_doc_size))]]]

\* Lines 459-464.
SummaryConfig(config) ==
    LET with_previous ==
            IF "previous" \notin DOMAIN config
            THEN ("previous" :> [tail |-> [count |-> 1, type |-> "summary"]]) @@ config
            ELSE config
    IN  [with_previous EXCEPT !.previous = ("middle" :> [type |-> "summary"]) @@ @]

Contains(seq, x) == \E n \in DOMAIN seq : seq[n] = x

\* Lines 469-472: the first occurrence of each configuration, in order.
RECURSIVE Deduplicate(_, _)
Deduplicate(unique_configs, rest) ==
    IF rest = <<>> THEN unique_configs
    ELSE Deduplicate(IF Contains(unique_configs, Head(rest))
                     THEN unique_configs
                     ELSE Append(unique_configs, Head(rest)),
                     Tail(rest))

\* Lines 420-466: the configurations before deduplication.
CollectedConfigs(chunk_size, avg_doc_size) ==
    LET scaled_configs ==
            [n \in DOMAIN base_configs |->
                ScaleConfig(base_configs[n], chunk_size, avg_doc_size)]
        with_scaled == <<EmptyConfig>> \o scaled_configs
        with_extensive ==
            IF NeedsExtensive(chunk_size, avg_doc_size)
            THEN Append(with_scaled, ExtensiveConfig(chunk_size, avg_doc_size))
            ELSE with_scaled
    IN  IF NeedsSummary(chunk_size, avg_doc_size)
        THEN with_extensive
                \o [n \in DOMAIN with_extensive |-> SummaryConfig(with_extensive[n])]
        ELSE with_extensive

\* Line 473 read as final_configs.extend(unique_configs).
PeripheralConfigsExtended(chunk_size, avg_doc_size) ==
    CollectedConfigs(chunk_size, avg_doc_size)
        \o Deduplicate(<<>>, CollectedConfigs(chunk_size, avg_doc_size))

\* Lines 420-475.
PeripheralConfigs(chunk_size, avg_doc_size) ==
    Deduplicate(<<>>, CollectedConfigs(chunk_size, avg_doc_size))

generate_peripheral_configs ==
    /\ pc = "idle"
    /\ \E chunk_size \in 1..MaxPeriChunk, avg_doc_size \in 0..MaxAvgDoc :
          /\ args' = [chunk_size |-> chunk_size, avg_doc_size |-> avg_doc_size]
          /\ ret' = [outcome |-> "ok",
                     value |-> PeripheralConfigs(chunk_size, avg_doc_size)]
    /\ oracle_log' = <<>>
    /\ op' = "peripheral"
    /\ pc' = "done"

(***************************************************************************)
(* The caller takes the result; the generator keeps nothing of the call.   *)
(***************************************************************************)
Return ==
    /\ pc = "done"
    /\ pc' = "idle"
    /\ op' = "none"
    /\ args' = <<>>
    /\ oracle_log' = <<>>
    /\ ret' = <<>>

Init ==
    /\ pc = "idle"
    /\ op = "none"
    /\ args = <<>>
    /\ oracle_log = <<>>
    /\ ret = <<>>

Next ==
    \/ get_split_config
    \/ determine_metadata_needs
    \/ determine_context_needs
    \/ generate_chunk_sizes
    \/ generate_peripheral_configs
    \/ Return

Spec == Init /\ [][Next]_vars

(***************************************************************************)
(* Properties.                                                             *)
(***************************************************************************)
SplitSample == args.input_data_sample
SplitAnswer == oracle_log[1].answer

\* The key with one leading "input." taken off, if it has one.
RemovePrefix(key) ==
    IF StartsWith(key, INPUT_PREFIX)
    THEN SubSeq(key, Len(INPUT_PREFIX) + 1, Len(key))
    ELSE key

\* C1 as stated: for a non-empty sample, when the oracle's split_key with its
\* "input." prefix removed is not a field of the first record, the Split Planner
\* raises the configuration error and returns no plan.
C1_PrefixStrippedKeyRejected ==
    (op = "split" /\ SplitSample # <<>>
        /\ RemovePrefix(SplitAnswer.split_key) \notin DOMAIN SplitSample[1])
    => (ret.outcome = "ValueError" /\ "value" \notin DOMAIN ret)

\* C1 amended: for a non-empty sample, when the oracle's split_key with every
\* occurrence of "input." removed (str.replace) is not a field of the first
\* record, the Split Planner raises the configuration error and returns no plan.
C1_StrippedKeyRejected ==
    (op = "split" /\ SplitSample # <<>>
        /\ StripInput(SplitAnswer.split_key) \notin DOMAIN SplitSample[1])
    => (ret.outcome = "ValueError" /\ "value" \notin DOMAIN ret)

\* C1 witness: a call in which the oracle named "input.h" and the first record has fields
\* but no "h": the planner raised.
C1_Witness ==
    /\ op = "split"
    /\ SplitSample # <<>>
    /\ DOMAIN SplitSample[1] # {}
    /\ SplitAnswer.split_key = INPUT_PREFIX \o H
    /\ ret.outcome = "ValueError"

\* C2: the split_key of every plan the Split Planner returns is a field of
\* every record of the sample.
C2_SplitKeyInEveryRecord ==
    (op = "split" /\ ret.outcome = "ok")
    => \A n \in DOMAIN SplitSample : ret.value.split_key \in DOMAIN SplitSample[n]

\* C3: every variable the returned subprompt references is input.chunk_content.
C3_OnlyChunkContentReferenced ==
    (op = "split" /\ ret.outcome = "ok")
    => extract_jinja_variables(ret.value.subprompt) \subseteq {CHUNK_VAR}

\* C4: when the necessity check answers needs_metadata = false, the Metadata
\* Planner returns exactly that answer and has made exactly one oracle call.
C4_NoMetadataIsVerbatim ==
    (op = "metadata" /\ oracle_log # <<>> /\ ~oracle_log[1].answer.needs_metadata)
    => /\ ret = [outcome |-> "ok", value |-> oracle_log[1].answer]
       /\ Len(oracle_log) = 1

\* C4 witness: a call whose necessity check answered false with reason r2.
C4_Witness ==
    /\ op = "metadata"
    /\ Len(oracle_log) = 1
    /\ oracle_log[1].request.kind = "necessity"
    /\ oracle_log[1].answer = [needs_metadata |-> FALSE, reason |-> "r2"]
    /\ ret.outcome = "ok"

\* C5: when the necessity check answers needs_metadata = true, the returned
\* plan holds the necessity check's reason, the derived metadata_prompt and
\* output_schema, and needs_metadata = true.
C5_ReasonMerged ==
    (op = "metadata" /\ oracle_log # <<>> /\ oracle_log[1].answer.needs_metadata
        /\ ret.outcome = "ok")
    => /\ ret.value.needs_metadata
       /\ ret.value.metadata_prompt = oracle_log[2].answer.metadata_prompt
       /\ ret.value.output_schema = oracle_log[2].answer.output_schema
       /\ "reason" \in DOMAIN ret.value
       /\ ret.value.reason = oracle_log[1].answer.reason

ChunkSample == args.input_data_sample
ChunkTotal == SumWords(ChunkSample, args.split_key)
StrictlyIncreasing(seq) == \A n \in 1..(Len(seq) - 1) : seq[n] < seq[n + 1]
NonDecreasing(seq) == \A n \in 1..(Len(seq) - 1) : seq[n] <= seq[n + 1]

\* size_i of the claim, with L = total / count and num_chunks = 5.
ClaimedSize(i, total, count) ==
    (4 * 100 + i * ((total \div (2 * count)) - 100)) \div 4

\* C6 as stated: with num_chunks = 5 and an average word count L > 200, the
\* chunk sizes are strictly increasing.
C6_IncreasingAbove200 ==
    (op = "chunk_sizes" /\ ret.outcome = "ok" /\ args.num_chunks = 5
        /\ ChunkTotal > 200 * Len(ChunkSample))
    => StrictlyIncreasing(ret.value)

\* C6 amended: with num_chunks = 5 and an average word count L >= 208 (so that
\* floor(L/2) >= 104), the chunk sizes are strictly increasing, and size_i is
\* the truncation of 100 + i*(floor(L/2) - 100)/4.
C6_IncreasingFrom208 ==
    (op = "chunk_sizes" /\ ret.outcome = "ok" /\ args.num_chunks = 5
        /\ ChunkTotal >= 208 * Len(ChunkSample))
    => /\ StrictlyIncreasing(ret.value)
       /\ \A n \in 1..5 : ret.value[n] = ClaimedSize(n - 1, ChunkTotal, Len(ChunkSample))

\* C6 witness: a two-document sample whose average is exactly 208, with sizes
\* 100 .. 104.
C6_Witness ==
    /\ op = "chunk_sizes"
    /\ ret.outcome = "ok"
    /\ args.num_chunks = 5
    /\ Len(ChunkSample) = 2
    /\ ChunkTotal = 416
    /\ ret.value = <<100, 101, 102, 103, 104>>

\* C7: when L/2 <= 100, no chunk size is smaller than an earlier one and none
\* is below 100.
C7_NotInvertedBelowFloor ==
    (op = "chunk_sizes" /\ ret.outcome = "ok" /\ ChunkTotal <= 200 * Len(ChunkSample))
    => /\ NonDecreasing(ret.value)
       /\ \A n \in DOMAIN ret.value : ret.value[n] >= 100

\* The counts a configuration holds.
Counts(config) ==
    {config[d][p].count :
        <<d, p>> \in {dp \in UNION {{<<d, p>> : p \in DOMAIN config[d]} : d \in DOMAIN config} :
                        "count" \in DOMAIN config[dp[1]][dp[2]]}}

\* C8: every count of every configuration of the generated space is at least 1
\* and at most max(1, avg_doc_size // chunk_size).
C8_CountsWithinMaxChunks ==
    op = "peripheral"
    => \A n \in DOMAIN ret.value : \A count \in Counts(ret.value[n]) :
          /\ 1 <= count
          /\ count <= (IF args.avg_doc_size \div args.chunk_size >= 1
                       THEN args.avg_doc_size \div args.chunk_size ELSE 1)

\* C8 witness: a space with scaled, extensive and summary configurations, whose counts
\* include 1 (the synthesized tail), 2 and 5 (the extensive one).
C8_Witness ==
    /\ op = "peripheral"
    /\ Len(ret.value) = 8
    /\ {1, 2, 5} \subseteq UNION {Counts(ret.value[n]) : n \in DOMAIN ret.value}

\* C9: no two elements of the generated space are structurally equal.
C9_NoTwoEqual ==
    op = "peripheral"
    => \A m, n \in DOMAIN ret.value : ret.value[m] = ret.value[n] => m = n

\* C9 witness: a space with summary variants, none equal to the configuration it was
\* derived from.
C9_Witness ==
    /\ op = "peripheral"
    /\ Len(ret.value) = 6
    /\ \A n \in 1..3 : ret.value[n + 3] = SummaryConfig(ret.value[n])

\* C10: the space starts with the empty configuration and has 3 elements when
\* 5*chunk_size >= avg_doc_size, 6 when 10*chunk_size >= avg_doc_size >
\* 5*chunk_size, and 8 when 10*chunk_size < avg_doc_size: the extensive
\* configuration is the fourth element exactly in the last case, the second
\* half are the summary variants of the first half exactly in the last two, and
\* deduplication removes nothing.
C10_SpaceSizes ==
    op = "peripheral"
    => LET c == args.chunk_size
           a == args.avg_doc_size
           space == ret.value
           n_plain == IF 10 * c < a THEN 4 ELSE 3
       IN  /\ space[1] = EmptyConfig
           /\ Len(space) = (IF 5 * c >= a THEN 3 ELSE IF 10 * c >= a THEN 6 ELSE 8)
           /\ Len(space) = (IF 5 * c < a THEN 2 * n_plain ELSE n_plain)
           /\ 10 * c < a =>
                space[4] = [previous |-> [tail |-> [count |-> 5]],
                            next |-> [head |-> [count |-> 2]]]
           /\ \A n \in DOMAIN space :
                ("previous" \in DOMAIN space[n] /\ "middle" \in DOMAIN space[n].previous)
                <=> (5 * c < a /\ n > n_plain)
           /\ 5 * c < a =>
                \A n \in 1..n_plain : space[n_plain + n] = SummaryConfig(space[n])
           /\ Len(space) = Len(CollectedConfigs(c, a))

\* C10 witness: the boundary avg_doc_size = 10 * chunk_size + 1, where the extensive
\* configuration first appears.
C10_Witness ==
    /\ op = "peripheral"
    /\ args.avg_doc_size = 10 * args.chunk_size + 1
    /\ Len(ret.value) = 8

\* C11: for every sample whose documents all hold the split key, and every
\* chunk_size >= 1 (documents shorter than chunk_size included), the Context
\* Planner's sampling completes, the start offset lies in
\* [0, max(0, len(words) - chunk_size)] for the sampled document, and the
\* numbers of words reported before and after the chunk are not negative.
C11_SamplingCompletes ==
    (op = "context" /\ args.input_data_sample # <<>>
        /\ \A n \in DOMAIN args.input_data_sample :
              args.split_key \in DOMAIN args.input_data_sample[n])
    => /\ ret.outcome = "ok"
       /\ Len(oracle_log) = 1
       /\ oracle_log[1].request.num_words_before >= 0
       /\ oracle_log[1].request.num_words_after >= 0
       /\ \E n \in DOMAIN args.input_data_sample :
             LET total_words == args.input_data_sample[n][args.split_key]
                 start_index == oracle_log[1].request.num_words_before
             IN  /\ start_index \in 0..Max(0, total_words - args.chunk_size)
                 /\ oracle_log[1].request.num_words_after
                        = Max(0, total_words - (start_index + args.chunk_size))

====
